---- MODULE Spec2Model ----
(***************************************************************************)
(* Model of scraper-v1.py: the page x listing double loop of main(), the   *)
(* metadata retry loop, scroll_description_container, click_next_page and  *)
(* the rendering surface they act on.                                      *)
(***************************************************************************)
EXTENDS Integers, Sequences, FiniteSets, TLC

\* ------------------------------------------------------------------ bounds
MaxPages == 2
MaxListings == 3
MaxFaults == 1
MaxSched == 3
MaxButtons == 3
MaxText == 4

\* ------------------------------------------------------- program constants
max_retries == 3
scroll_increment == 200
LIST_SCROLL == 300
STAGNANT_LIMIT == 3

\* ------------------------------------------------------ surface vocabulary
\* heights the description container can report, and its viewport heights
Heights == {500, 700, 900}
ClientHeights == {50, 600}
\* a button whose text holds no number
NaL == -1
\* button texts of the pagination lookup: page numbers, a text that holds
\* "12", and a text without digits
PagLabels == {1, 2, 3, 12, NaL}
NoListing == <<0, 0>>
Unbound == [src |-> <<-1, -1>>, has |-> FALSE]

VARIABLES
    pc,                     \* position of main() / of the function under test
    error,                  \* exception that left main(), "none" otherwise
    numPages, perPage,      \* surface: pages of results, listings per page
    prerender, batch,       \* surface: <li> rendered on load / per list scroll
    curPage,                \* surface: page of results shown
    rendered,               \* surface: <li> elements rendered in the container
    bar, current,           \* surface: buttons in DOM order, index of aria-current
    pane,                   \* surface: listing shown in the details pane
    content, cidx,          \* surface: heights the description container reports
    clientHeight, dom_top,  \* surface: its viewport height and scrollTop
    last_listing, listing,  \* main(): handles, 0 is None
    retry_count,            \* main(): retry loop counter
    job_metadata_response,  \* main(): last bound value, Unbound before the first
    job,                    \* main(): record under assembly
    sink,                   \* provenance of each record created, in order
    table,                  \* the records table.create() received, in order
    pushes,                 \* len(job_posts_data) of each push_to_airtable call
    stuck,                  \* surface: a listing whose details card never shows
    description_text,       \* extract_qualifications_general(): argument
    qualifications,         \* extract_qualifications_general(): return value
    last_height, new_height, scroll_top, no_change_counter,
                            \* scroll_description_container(): locals
    faults,                 \* failures injected so far
    yielded,                \* handles activated on the current page, in order
    list_scrolled,          \* units the listing container was scrolled on this page
    requeries,              \* sibling re-queries after a scroll on this page
    short,                  \* a page ended before all its listings rendered
    attempts, backoffs,     \* metadata queries / backoff waits of this listing
    meta_outcome,           \* how the retry loop of this listing ended
    advLog,                 \* one entry per click_next_page call
    polled,                 \* heights read by this stabilization run
    polls, scrolls          \* polls / scrollBy calls of this stabilization run

vars == <<pc, error, numPages, perPage, prerender, batch, curPage, rendered, bar, current, pane,
          content, cidx, clientHeight, dom_top, last_listing, listing,
          retry_count, job_metadata_response, job, sink, last_height,
          new_height, scroll_top, no_change_counter, faults, yielded,
          list_scrolled, requeries, short, attempts, backoffs, meta_outcome,
          advLog, polled, polls, scrolls, table, pushes, stuck,
          description_text, qualifications>>

surfaceFixture == <<numPages, perPage, prerender, batch, stuck>>
sinkVars == <<sink, table, pushes>>
extractVars == <<description_text, qualifications>>
scrollLocals == <<last_height, new_height, scroll_top, no_change_counter,
                  polled, polls, scrolls>>
scrollSurface == <<content, cidx, clientHeight, dom_top>>
retryVars == <<retry_count, attempts, backoffs, meta_outcome>>
iterGhosts == <<yielded, list_scrolled, requeries, short>>
pagSurface == <<bar, current>>

\* ----------------------------------------------------------------- helpers
Min(a, b) == IF a < b THEN a ELSE b
Max(a, b) == IF a > b THEN a ELSE b

RECURSIVE SeqsUpTo(_, _)
\* all sequences over S of length 1..n
SeqsUpTo(S, n) ==
    IF n = 0 THEN {}
    ELSE LET shorter == SeqsUpTo(S, n - 1)
         IN  {<<x>> : x \in S} \cup shorter
             \cup {Append(s, x) : s \in shorter, x \in S}

Schedules == SeqsUpTo(Heights, MaxSched)
\* what the details pane of a freshly activated listing reports
PaneSchedules == {<<900>>, <<500, 900>>}

RECURSIVE Digits(_)
\* decimal text of a natural number
Digits(n) == IF n < 10 THEN <<n>> ELSE Append(Digits(n \div 10), n % 10)

\* t occurs in s as a contiguous run
Contains(s, t) ==
    \E k \in 0..(Len(s) - Len(t)) : \A j \in 1..Len(t) : s[k + j] = t[j]

Count(s, x) == Cardinality({k \in DOMAIN s : s[k] = x})

PlainBar(n) == [k \in 1..n |-> k]

\* ------------------------------------------------- scroll_description_container
HeightAt(k) == content[Min(k, Len(content))]
\* largest scrollTop the surface allows at content height h
MaxTop(h) == Max(0, h - clientHeight)

NextCounter_nogrowth(newh, lasth, cnt) == IF newh <= lasth THEN cnt + 1 ELSE 0

\* line 141-144: the counter after a poll
NextCounter(newh, lasth, cnt) == IF newh = lasth THEN cnt + 1 ELSE 0

ShouldBreak_both(cnt, top, newh) ==
    cnt >= STAGNANT_LIMIT /\ top + scroll_increment >= newh

\* line 145: the break condition
ShouldBreak(cnt, top, newh) ==
    cnt >= STAGNANT_LIMIT \/ top + scroll_increment >= newh

NextLastHeight_stale(newh, lasth) == lasth

\* line 148: the height the next poll is compared against
NextLastHeight(newh, lasth) == newh

\* lines 132-134
ScrollInit ==
    /\ pc = "scroll_init"
    /\ last_height' = HeightAt(cidx)
    /\ no_change_counter' = 0
    /\ new_height' = 0
    /\ scroll_top' = 0
    /\ polled' = <<HeightAt(cidx)>>
    /\ polls' = 0
    /\ scrolls' = 0
    /\ pc' = "scroll_loop"
    /\ UNCHANGED <<error, surfaceFixture, extractVars, curPage, rendered, pagSurface, pane,
                   scrollSurface, last_listing, listing, retryVars,
                   job_metadata_response, job, sinkVars, faults, iterGhosts,
                   advLog>>

\* lines 135-148: one pass of the loop body: scrollBy, settle, two reads,
\* counter update, break test
ScrollPoll ==
    /\ pc = "scroll_loop"
    /\ LET scrolledTo == Min(dom_top + scroll_increment, MaxTop(HeightAt(cidx)))
           nidx == Min(cidx + 1, Len(content))
           newh == HeightAt(nidx)
           top == Min(scrolledTo, MaxTop(newh))
           cnt == NextCounter(newh, last_height, no_change_counter)
       IN  /\ cidx' = nidx
           /\ dom_top' = top
           /\ scrolls' = scrolls + 1
           /\ polls' = polls + 1
           /\ new_height' = newh
           /\ scroll_top' = top
           /\ polled' = Append(polled, newh)
           /\ no_change_counter' = cnt
           /\ IF ShouldBreak(cnt, top, newh)
              THEN /\ pc' = "read_text"
                   /\ UNCHANGED last_height
              ELSE /\ pc' = "scroll_loop"
                   /\ last_height' = NextLastHeight(newh, last_height)
    /\ UNCHANGED <<error, surfaceFixture, extractVars, curPage, rendered, pagSurface, pane,
                   content, clientHeight, last_listing, listing, retryVars,
                   job_metadata_response, job, sinkVars, faults, iterGhosts,
                   advLog>>

\* ------------------------------------------------------------ click_next_page
\* Playwright's :has-text(): the button text contains the digits of n
HasText(label, n) == label >= 0 /\ Contains(Digits(label), Digits(n))

\* query_selector(): index of the first button in DOM order that matches, 0 if none
FirstWithText(b, n) ==
    IF \E i \in DOMAIN b : HasText(b[i], n)
    THEN CHOOSE i \in DOMAIN b :
            HasText(b[i], n) /\ \A j \in 1..(i - 1) : ~HasText(b[j], n)
    ELSE 0

Exhausted(raised) == [ret |-> FALSE, clicked |-> 0, raised |-> raised]
Advanced(i) == [ret |-> TRUE, clicked |-> i, raised |-> FALSE]

OnException_advances == [ret |-> TRUE, clicked |-> 1, raised |-> TRUE]

\* lines 263-265: what the except clause returns
OnException == Exhausted(TRUE)

\* lines 238-265. b: buttons in DOM order; cur: index of the aria-current
\* button, 0 if none; exc: the call that raises ("none", "query", "text", "click")
click_next_page(b, cur, exc) ==
    IF exc = "query" THEN OnException
    ELSE IF cur # 0
    THEN IF exc = "text" \/ b[cur] < 0 THEN OnException
         ELSE LET next_page_number == b[cur] + 1
                  i == FirstWithText(b, next_page_number)
              IN  IF i # 0
                  THEN IF exc = "click" THEN OnException ELSE Advanced(i)
                  ELSE Exhausted(FALSE)
    ELSE LET i == FirstWithText(b, 2)
         IN  IF i # 0
             THEN IF exc = "click" THEN OnException ELSE Advanced(i)
             ELSE Exhausted(FALSE)

\* ------------------------------------------- extract_qualifications_general
\* A description is a sequence of lexemes: "MQ" is the text
\* "Minimum Qualifications:", "mq" the same in lower case, "PQ"
\* "Preferred Qualifications:", "Q" a "Qualifications:" that follows neither
\* word, "q" the same in lower case, "R1" "Requirement:", "Rs" "Requirements:",
\* "nl" a whitespace character and "x" any other word.
Lexemes == {"MQ", "mq", "PQ", "Q", "q", "R1", "Rs", "nl", "x"}
Texts == {<<>>} \cup SeqsUpTo(Lexemes, MaxText)

IsSpace(t) == t = "nl"
\* re.IGNORECASE: both spellings match r"Minimum Qualifications:"
MinHeaders == {"MQ", "mq"}
PrefHeaders == {"PQ"}
\* r"Qualifications:" also matches inside the two longer headers
GenericHeaders == {"MQ", "mq", "PQ", "Q", "q"}
\* r"Requirements?:"
ReqHeaders == {"R1", "Rs"}

Search_last(s, headers) ==
    IF \E i \in DOMAIN s : s[i] \in headers
    THEN CHOOSE i \in DOMAIN s :
             s[i] \in headers /\ \A j \in (i + 1)..Len(s) : s[j] \notin headers
    ELSE 0

\* re.search: position of the leftmost match of a header, 0 if none
Search(s, headers) ==
    IF \E i \in DOMAIN s : s[i] \in headers
    THEN CHOOSE i \in DOMAIN s :
             s[i] \in headers /\ \A j \in 1..(i - 1) : s[j] \notin headers
    ELSE 0

\* greedy \s* from position k: the first position that is not whitespace
RECURSIVE SkipSpace(_, _)
SkipSpace(s, k) ==
    IF k <= Len(s) /\ IsSpace(s[k]) THEN SkipSpace(s, k + 1) ELSE k

MinTail_end(s, k) == SkipSpace(s, k) > Len(s)

\* \s*(?=(Preferred Qualifications:|$)) matches at position k
MinTail(s, k) ==
    LET m == SkipSpace(s, k) IN m > Len(s) \/ s[m] \in PrefHeaders

\* lazy (.*?) from position k: the first end position the tail matches at
RECURSIVE LazyEnd(_, _)
LazyEnd(s, k) == IF MinTail(s, k) THEN k ELSE LazyEnd(s, k + 1)

\* str.strip()
RECURSIVE strip(_)
strip(s) ==
    IF s = <<>> THEN s
    ELSE IF IsSpace(s[1]) THEN strip(Tail(s))
    ELSE IF IsSpace(s[Len(s)]) THEN strip(SubSeq(s, 1, Len(s) - 1))
    ELSE s

\* lines 189-192: group(1) of min_match, for a match at position i
MinGroup(s, i) ==
    LET from == SkipSpace(s, i + 1) IN SubSeq(s, from, LazyEnd(s, from) - 1)

\* lines 193-196, 207-210, 214-217: group(1) of r"<header>\s*(.*)" matched at i
RestGroup(s, i) == SubSeq(s, SkipSpace(s, i + 1), Len(s))

\* lines 200-205
Combine(minimum_quals, preferred_quals) ==
    strip((IF minimum_quals # <<>>
           THEN <<"MQ", "nl">> \o minimum_quals \o <<"nl", "nl">> ELSE <<>>)
          \o (IF preferred_quals # <<>>
              THEN <<"PQ", "nl">> \o preferred_quals ELSE <<>>))

\* lines 189-220
extract_qualifications_general(s) ==
    LET min_match == Search(s, MinHeaders)
        pref_match == Search(s, PrefHeaders)
        generic_match == Search(s, GenericHeaders)
        req_match == Search(s, ReqHeaders)
    IN  IF min_match # 0 \/ pref_match # 0
        THEN Combine(IF min_match # 0 THEN strip(MinGroup(s, min_match)) ELSE <<>>,
                     IF pref_match # 0 THEN strip(RestGroup(s, pref_match)) ELSE <<>>)
        ELSE IF generic_match # 0 THEN strip(RestGroup(s, generic_match))
        ELSE IF req_match # 0 THEN strip(RestGroup(s, req_match))
        ELSE <<>>

\* one call of the function on the text it was given
Extract ==
    /\ pc = "extract"
    /\ qualifications' = extract_qualifications_general(description_text)
    /\ pc' = "extracted"
    /\ UNCHANGED <<error, surfaceFixture, description_text, curPage, rendered,
                   pagSurface, pane, scrollSurface, last_listing, listing,
                   retryVars, job_metadata_response, job, sinkVars,
                   scrollLocals, faults, iterGhosts, advLog>>

\* ------------------------------------------------------------------ records
\* A Python dict is the function from its keys to their values; {} is the
\* function with no keys. A value is tagged with its Python type: the tag
\* "int" with a number, "str" with the number whose decimal text it is, and
\* "none" for None.
None == [t |-> "none", v |-> 0]
DictSet(d, k, x) == [f \in (DOMAIN d) \cup {k} |-> IF f = k THEN x ELSE d[f]]
DictGet(d, k) == IF k \in DOMAIN d THEN d[k] ELSE None
isinstance_str(x) == x.t = "str"
str(x) == [t |-> "str", v |-> x.v]

\* What the surface holds for the listing at <<page, index>>: whether the
\* query finds a salary for it and of which type, and the text of its
\* description. Between them the listings of two pages show every case.
SalaryKinds == <<"missing", "none", "str", "int">>
SalaryKind(src) == SalaryKinds[((src[1] + src[2]) % 4) + 1]
DescTexts == << <<"x", "nl", "mq", "nl", "x", "nl", "PQ", "x", "nl">>,
                <<"x", "Q", "nl", "x">>,
                <<"x", "x">>,
                <<"Rs", "x", "nl">> >>
TextOf(src) == DescTexts[((src[1] + 2 * src[2]) % 4) + 1]

\* the job_details dict of a response that has one (JOB_POSTS_QUERY)
Details(src) ==
    LET titled == DictSet(<<>>, "job_title", src)
        amount == 10 * src[1] + src[2]
    IN  CASE SalaryKind(src) = "missing" -> titled
          [] SalaryKind(src) = "none" -> DictSet(titled, "salary", None)
          [] SalaryKind(src) = "str" -> DictSet(titled, "salary", [t |-> "str", v |-> amount])
          [] SalaryKind(src) = "int" -> DictSet(titled, "salary", [t |-> "int", v |-> amount])

EmptyJob == <<>>

JobFrom_always(response) == Details(response.src)

\* lines 403-408: job is the response's job_details when that is truthy, else {}
JobFrom(response) == IF response.has THEN Details(response.src) ELSE EmptyJob

CoerceSalary_keeps(j) == j

\* lines 114-115
CoerceSalary(j) ==
    IF DictGet(j, "salary") # None /\ ~isinstance_str(DictGet(j, "salary"))
    THEN DictSet(j, "salary", str(j["salary"]))
    ELSE j

push_to_airtable_buffers(job_posts_data) == <<>>

\* lines 113-117: the records table.create receives, in order
push_to_airtable(job_posts_data) ==
    [k \in DOMAIN job_posts_data |-> CoerceSalary(job_posts_data[k])]

\* lines 411-412: the two keys main() sets on every job. The dict is the
\* response's own job_details object; a later reuse of the response sets the
\* same two keys again, so the object's earlier content never shows.
Described(j, job_description) ==
    DictSet(DictSet(j, "job_description", job_description),
            "qualifications", extract_qualifications_general(job_description))

\* ------------------------------------------------------------------- main()
CanFail == faults < MaxFaults

nextElementSibling_skips(last, shown) == IF last + 2 <= shown THEN last + 2 ELSE 0

\* line 345-346 / 351-352: el.nextElementSibling among the rendered <li>
nextElementSibling(last, shown) == IF last + 1 <= shown THEN last + 1 ELSE 0

\* line 391: the retry loop goes round again
RetryLoopContinues(rc) == rc < max_retries

BackoffAfter_always(rc) == 1

\* lines 398-401: backoff waits made after the failure that made the count rc
BackoffAfter(rc) == IF rc = max_retries THEN 0 ELSE 1

\* lines 336-337: top of the outer loop
PageStart ==
    /\ pc = "page_start"
    /\ last_listing' = 0
    /\ listing' = 0
    /\ yielded' = <<>>
    /\ list_scrolled' = 0
    /\ requeries' = 0
    /\ pc' = "find"
    /\ UNCHANGED <<error, surfaceFixture, extractVars, curPage, rendered, pagSurface, pane,
                   scrollSurface, retryVars, job_metadata_response, job, sinkVars,
                   scrollLocals, faults, short, advLog>>

\* lines 339-355: the next handle of the page, or the end of the inner loop
FindListing ==
    /\ pc = "find"
    /\ IF last_listing = 0
       THEN /\ listing' = (IF rendered >= 1 THEN 1 ELSE 0)
            /\ pc' = (IF rendered >= 1 THEN "click" ELSE "paginate")
            /\ short' = (short \/ (rendered = 0 /\ perPage > 0))
            /\ UNCHANGED <<rendered, list_scrolled, requeries>>
       ELSE IF nextElementSibling(last_listing, rendered) # 0
       THEN /\ listing' = nextElementSibling(last_listing, rendered)
            /\ pc' = "click"
            /\ UNCHANGED <<rendered, list_scrolled, requeries, short>>
       ELSE LET shown == Min(perPage, rendered + batch)
            IN
            \* scrollBy(0, 300), settle; the surface may render further <li>
            /\ rendered' = shown
            /\ list_scrolled' = list_scrolled + LIST_SCROLL
            /\ requeries' = requeries + 1
            /\ listing' = nextElementSibling(last_listing, shown)
            /\ pc' = (IF nextElementSibling(last_listing, shown) # 0
                      THEN "click" ELSE "paginate")
            /\ short' = (short \/ (nextElementSibling(last_listing, shown) = 0
                                   /\ shown < perPage))
    /\ UNCHANGED <<error, surfaceFixture, extractVars, curPage, pagSurface, pane,
                   scrollSurface, last_listing, retryVars,
                   job_metadata_response, job, sinkVars, scrollLocals, faults,
                   yielded, advLog>>

\* The log of clicks of a page is kept up to this length. A run with at most
\* MaxFaults failures clicks fewer times on a page, so only a run that clicks
\* without end fills it.
MaxClicks == MaxListings + MaxFaults + 1

\* lines 357-359: listing.click(); the details pane loads that listing
ClickListing ==
    /\ pc = "click"
    /\ yielded' = (IF Len(yielded) < MaxClicks THEN Append(yielded, listing)
                   ELSE yielded)
    /\ pane' = <<curPage, listing>>
    /\ pc' = "wait_details"
    /\ UNCHANGED <<error, surfaceFixture, extractVars, curPage, rendered, pagSurface,
                   scrollSurface,
                   last_listing, listing, retryVars, job_metadata_response,
                   job, sinkVars, scrollLocals, faults, list_scrolled, requeries,
                   short, advLog>>

\* What wait_for_selector can do at line 363: the card of the stuck listing
\* never appears, any other card appears unless a failure is still to come.
DetailsOutcomes ==
    IF pane = stuck THEN {"timeout"}
    ELSE {"found"} \cup (IF CanFail THEN {"none", "timeout"} ELSE {})

\* lines 362-370 and 381-383: wait for the details card
WaitDetails ==
    /\ pc = "wait_details"
    /\ \E outcome \in DetailsOutcomes :
            /\ pc' = (IF outcome = "found" THEN "wait_title" ELSE "find")
            \* the failure of the listing that never loads is not a chance one
            /\ faults' = (IF outcome = "found" \/ pane = stuck
                          THEN faults ELSE faults + 1)
    /\ UNCHANGED <<error, surfaceFixture, extractVars, curPage, rendered, pagSurface, pane,
                   scrollSurface, last_listing, listing, retryVars,
                   job_metadata_response, job, sinkVars, scrollLocals, iterGhosts,
                   advLog>>

\* lines 373-383 and 389-390: wait for the title, then enter the retry loop
WaitTitle ==
    /\ pc = "wait_title"
    /\ \E outcome \in {"found"} \cup (IF CanFail THEN {"none", "timeout"} ELSE {}) :
            /\ pc' = (IF outcome = "found" THEN "query" ELSE "find")
            /\ faults' = (IF outcome = "found" THEN faults ELSE faults + 1)
    /\ retry_count' = 0
    /\ attempts' = 0
    /\ backoffs' = 0
    /\ meta_outcome' = "running"
    /\ UNCHANGED <<error, surfaceFixture, extractVars, curPage, rendered, pagSurface, pane,
                   scrollSurface, last_listing, listing,
                   job_metadata_response, job, sinkVars, scrollLocals, iterGhosts,
                   advLog>>

\* lines 391-401: one attempt of the metadata query
QueryMetadata ==
    /\ pc = "query"
    /\ RetryLoopContinues(retry_count)
    /\ attempts' = attempts + 1
    /\ \E res \in {"details"}
                 \cup (IF CanFail THEN {"absent"} ELSE {})
                 \cup (IF CanFail \/ RetryLoopContinues(retry_count + 1)
                       THEN {"raise"} ELSE {}) :
         IF res = "raise"
         THEN /\ retry_count' = retry_count + 1
              /\ backoffs' = backoffs + BackoffAfter(retry_count + 1)
              \* a failure that is retried leaves no trace; the last one is counted
              /\ faults' = (IF RetryLoopContinues(retry_count + 1)
                            THEN faults ELSE faults + 1)
              /\ IF RetryLoopContinues(retry_count + 1)
                 THEN pc' = "query" /\ meta_outcome' = "running"
                 ELSE pc' = "assemble" /\ meta_outcome' = "exhausted"
              /\ UNCHANGED job_metadata_response
         ELSE /\ job_metadata_response' = [src |-> pane, has |-> (res = "details")]
              /\ faults' = (IF res = "absent" THEN faults + 1 ELSE faults)
              /\ pc' = "assemble"
              /\ meta_outcome' = "ok"
              /\ UNCHANGED <<retry_count, backoffs>>
    /\ UNCHANGED <<error, surfaceFixture, extractVars, curPage, rendered, pagSurface, pane,
                   scrollSurface, last_listing, listing, job, sinkVars,
                   scrollLocals, iterGhosts, advLog>>

\* lines 403-408: job from the response the name is bound to. retry_count is
\* dead from here on (line 390 assigns it before the next read), so it and the
\* counts kept beside it are cleared.
Assemble ==
    /\ pc = "assemble"
    /\ retry_count' = 0
    /\ attempts' = 0
    /\ backoffs' = 0
    /\ IF job_metadata_response = Unbound
       THEN /\ error' = "UnboundLocalError"
            /\ pc' = "crashed"
            /\ UNCHANGED job
       ELSE /\ job' = JobFrom(job_metadata_response)
            /\ pc' = "desc_wait"
            /\ UNCHANGED error
    /\ UNCHANGED <<surfaceFixture, extractVars, curPage, rendered, pagSurface, pane,
                   scrollSurface, last_listing, listing, meta_outcome,
                   job_metadata_response, sinkVars, scrollLocals, faults,
                   iterGhosts, advLog>>

\* lines 410 and 165-168: scrape_job_description waits for the container
WaitDescription ==
    /\ pc = "desc_wait"
    /\ \E outcome \in {"found"} \cup (IF CanFail THEN {"timeout"} ELSE {}) :
         IF outcome = "found"
         THEN /\ pc' = "scroll_init"
              \* the container is there, with some content and viewport
              /\ content' \in PaneSchedules
              /\ clientHeight' \in ClientHeights
              /\ cidx' = 1
              /\ dom_top' = 0
              /\ UNCHANGED <<error, faults>>
         ELSE /\ error' = "TimeoutError"
              /\ pc' = "crashed"
              /\ faults' = faults + 1
              /\ UNCHANGED scrollSurface
    /\ UNCHANGED <<surfaceFixture, extractVars, curPage, rendered, pagSurface, pane,
                   last_listing, listing, retryVars,
                   job_metadata_response, job, sinkVars, scrollLocals,
                   iterGhosts, advLog>>

\* lines 169-171 and 411-416: read the text, push the record, move the cursor.
\* The locals of the returned call are gone, and the container is not looked
\* at again before the next listing replaces its content.
EmitRecord ==
    /\ pc = "read_text"
    /\ LET job_description == TextOf(pane)
           job_posts_data == <<Described(job, job_description)>>
       IN  /\ table' = table \o push_to_airtable(job_posts_data)
           /\ pushes' = Append(pushes, Len(job_posts_data))
    /\ sink' = Append(sink, [page |-> curPage, idx |-> listing,
                             meta |-> (IF "job_title" \in DOMAIN job
                                       THEN job["job_title"] ELSE NoListing),
                             desc |-> pane,
                             fresh |-> (meta_outcome = "ok")])
    /\ job' = EmptyJob
    /\ last_listing' = listing
    /\ last_height' = 0
    /\ new_height' = 0
    /\ scroll_top' = 0
    /\ no_change_counter' = 0
    /\ polled' = <<>>
    /\ polls' = 0
    /\ scrolls' = 0
    /\ content' = <<900>>
    /\ cidx' = 1
    /\ clientHeight' = 600
    /\ dom_top' = 0
    /\ meta_outcome' = "running"
    /\ pc' = "find"
    /\ UNCHANGED <<error, surfaceFixture, extractVars, curPage, rendered, pagSurface, pane,
                   listing, retry_count, attempts, backoffs,
                   job_metadata_response, faults, iterGhosts, advLog>>

\* lines 418-425 with click_next_page: advance, or leave the outer loop
Paginate ==
    /\ pc = "paginate"
    /\ \E exc \in {"none"} \cup (IF CanFail THEN {"query", "text", "click"} ELSE {}) :
         LET res == click_next_page(bar, current, exc)
         IN  /\ advLog' = Append(advLog, [page |-> curPage, emitted |-> Len(sink),
                                          ret |-> res.ret, raised |-> res.raised,
                                          target |-> (IF res.clicked = 0 THEN 0
                                                      ELSE bar[res.clicked]),
                                          indicator |-> (IF current = 0 THEN 0
                                                         ELSE bar[current]),
                                          labels |-> {bar[i] : i \in DOMAIN bar}])
             /\ IF res.ret
                THEN /\ curPage' = bar[res.clicked]
                     /\ bar' = PlainBar(numPages)
                     /\ \E ind \in {bar[res.clicked]}
                                   \cup (IF CanFail /\ exc = "none" THEN {0} ELSE {}) :
                            /\ current' = (IF ind \in 1..numPages THEN ind ELSE 0)
                            /\ faults' = (IF ind = 0 THEN faults + 1 ELSE faults)
                     /\ rendered' = prerender
                     /\ pc' = "page_start"
                ELSE /\ pc' = "close"
                     /\ faults' = (IF exc = "none" THEN faults ELSE faults + 1)
                     /\ UNCHANGED <<curPage, bar, current, rendered>>
    /\ UNCHANGED <<error, surfaceFixture, extractVars, pane, scrollSurface, last_listing,
                   listing, retryVars, job_metadata_response, job, sinkVars,
                   scrollLocals, iterGhosts>>

\* lines 427-428
ClosePage ==
    /\ pc = "close"
    /\ pc' = "done"
    /\ UNCHANGED <<error, surfaceFixture, extractVars, curPage, rendered, pagSurface, pane,
                   scrollSurface, last_listing, listing, retryVars,
                   job_metadata_response, job, sinkVars, scrollLocals, faults,
                   iterGhosts, advLog>>

\* ----------------------------------------------------------- specifications
Idle ==
    /\ error = "none"
    /\ pane = NoListing
    /\ cidx = 1
    /\ last_listing = 0
    /\ listing = 0
    /\ retry_count = 0
    /\ job_metadata_response = Unbound
    /\ job = EmptyJob
    /\ sink = <<>>
    /\ table = <<>>
    /\ pushes = <<>>
    /\ qualifications = <<>>
    /\ last_height = 0
    /\ new_height = 0
    /\ scroll_top = 0
    /\ no_change_counter = 0
    /\ yielded = <<>>
    /\ list_scrolled = 0
    /\ requeries = 0
    /\ short = FALSE
    /\ attempts = 0
    /\ backoffs = 0
    /\ meta_outcome = "running"
    /\ advLog = <<>>
    /\ polled = <<>>
    /\ polls = 0
    /\ scrolls = 0

\* main() after the search results have loaded (line 335)
Init ==
    /\ Idle
    /\ pc = "page_start"
    /\ numPages \in 1..MaxPages
    /\ perPage \in 0..MaxListings
    /\ prerender \in 0..perPage
    /\ batch \in 0..(perPage - prerender)
    /\ curPage = 1
    /\ rendered = prerender
    /\ bar = PlainBar(numPages)
    /\ current \in {0, 1}
    /\ content = <<900>>
    /\ clientHeight = 600
    /\ dom_top = 0
    /\ stuck = NoListing
    /\ faults = 0
    /\ description_text = <<>>

Next ==
    \/ PageStart
    \/ FindListing
    \/ ClickListing
    \/ WaitDetails
    \/ WaitTitle
    \/ QueryMetadata
    \/ Assemble
    \/ WaitDescription
    \/ ScrollInit
    \/ ScrollPoll
    \/ EmitRecord
    \/ Paginate
    \/ ClosePage

Spec == Init /\ [][Next]_vars

\* scroll_description_container called on a container in any state
InitStab ==
    /\ Idle
    /\ pc = "scroll_init"
    /\ numPages = 1
    /\ perPage = 1
    /\ prerender = 1
    /\ batch = 0
    /\ curPage = 1
    /\ rendered = 1
    /\ bar = PlainBar(1)
    /\ current = 1
    /\ content \in Schedules
    /\ clientHeight \in ClientHeights
    /\ dom_top \in {0, Max(0, content[1] - clientHeight)}
    /\ stuck = NoListing
    /\ faults = 0
    /\ description_text = <<>>

NextStab == ScrollInit \/ ScrollPoll

SpecStab == InitStab /\ [][NextStab]_vars

\* click_next_page called on any row of buttons
InitPag ==
    /\ Idle
    /\ pc = "paginate"
    /\ numPages = 1
    /\ perPage = 0
    /\ prerender = 0
    /\ batch = 0
    /\ curPage = 1
    /\ rendered = 0
    /\ bar \in {<<>>} \cup SeqsUpTo(PagLabels, MaxButtons)
    /\ current \in 0..Len(bar)
    /\ content = <<900>>
    /\ clientHeight = 600
    /\ dom_top = 0
    /\ stuck = NoListing
    /\ faults = 0
    /\ description_text = <<>>

NextPag == Paginate

SpecPag == InitPag /\ [][NextPag]_vars

\* extract_qualifications_general called on any text
InitExt ==
    /\ Idle
    /\ pc = "extract"
    /\ numPages = 1
    /\ perPage = 0
    /\ prerender = 0
    /\ batch = 0
    /\ curPage = 1
    /\ rendered = 0
    /\ bar = PlainBar(1)
    /\ current = 1
    /\ content = <<900>>
    /\ clientHeight = 600
    /\ dom_top = 0
    /\ stuck = NoListing
    /\ faults = 0
    /\ description_text \in Texts

NextExt == Extract

SpecExt == InitExt /\ [][NextExt]_vars

\* main() on a surface where one listing's details card may never load, and
\* nothing else fails. The process keeps taking its next step.
InitLive ==
    /\ Idle
    /\ pc = "page_start"
    /\ numPages \in 1..MaxPages
    /\ perPage \in 0..MaxListings
    /\ prerender \in 0..perPage
    /\ batch \in 0..(perPage - prerender)
    /\ curPage = 1
    /\ rendered = prerender
    /\ bar = PlainBar(numPages)
    /\ current \in {0, 1}
    /\ content = <<900>>
    /\ clientHeight = 600
    /\ dom_top = 0
    /\ stuck \in {NoListing} \cup ((1..numPages) \X (1..perPage))
    /\ faults = MaxFaults
    /\ description_text = <<>>

SpecLive == InitLive /\ [][Next]_vars /\ WF_vars(Next)

\* ------------------------------------------------------------------- claims
Listings == 1..(MaxListings + 1)

\* C1: within one page every listing is activated at most once, whatever
\* waits fail: a skipped listing is not activated again.
C1_ActivatedAtMostOnce == \A i \in Listings : Count(yielded, i) <= 1

\* C2: a listing whose metadata query failed on all 3 attempts is skipped: no
\* record is created for it and no exception leaves main().
C2_ExhaustionSkipsListing ==
    /\ error # "UnboundLocalError"
    /\ \A k \in DOMAIN sink : sink[k].fresh

\* C3: a timeout while waiting for the details card, the title or the
\* description container never aborts the run.
C3_WaitTimeoutNeverAborts == error # "TimeoutError"

FaultFree == faults = 0 /\ ~short
ExpectedRecord(k) ==
    LET p == ((k - 1) \div perPage) + 1
        i == ((k - 1) % perPage) + 1
    IN  [page |-> p, idx |-> i, meta |-> <<p, i>>, desc |-> <<p, i>>,
         fresh |-> TRUE]

\* C4: with every wait and query succeeding on P pages of L listings, the
\* records created are the listings in page order then DOM order, each with
\* its own description; advance is called once per page, after the page's L-th
\* record, and the run ends after the call on page P, with P*L records.
C4_FaultFreeRun ==
    FaultFree =>
        /\ \A k \in DOMAIN sink : sink[k] = ExpectedRecord(k)
        /\ Len(sink) <= numPages * perPage
        /\ Len(advLog) <= numPages
        /\ \A p \in DOMAIN advLog :
              /\ advLog[p].page = p
              /\ advLog[p].emitted = p * perPage
              /\ advLog[p].ret = (p < numPages)
        /\ pc = "done" => /\ Len(sink) = numPages * perPage
                          /\ Len(advLog) = numPages
        /\ pc # "crashed"

C4_Witness ==
    /\ pc = "done"
    /\ FaultFree
    /\ numPages = 2
    /\ perPage = 3
    /\ Len(sink) = 6
    /\ Len(advLog) = 2
    /\ advLog[1].ret
    /\ ~advLog[2].ret

\* C5: the handles activated on a page are the first listing and then, each
\* time, the sibling following the last one activated; with N >= 1 pre-rendered
\* siblings and no further rendering the page ends after exactly N handles and
\* exactly one scroll-and-requery.
C5_YieldsFollowDomOrder ==
    /\ \A k \in DOMAIN yielded : yielded[k] = k
    /\ (pc = "paginate" /\ prerender >= 1 /\ rendered = prerender)
          => /\ Len(yielded) = prerender
             /\ list_scrolled = 300
             /\ requeries = 1

\* C6: advance activates the control labelled exactly n+1 when the indicator
\* n is found and that control exists, the control labelled exactly 2 when no
\* indicator is found and that control exists, and nothing otherwise.
C6_AdvanceTargetsExactLabel ==
    \A k \in DOMAIN advLog :
        LET e == advLog[k]
            wanted == IF e.indicator = 0 THEN 2 ELSE e.indicator + 1
        IN  ~e.raised =>
               IF wanted \in e.labels
               THEN e.ret /\ e.target = wanted
               ELSE ~e.ret /\ e.target = 0

\* C7: an exception raised inside click_next_page comes back as False; main()
\* then leaves the outer loop and closes the page without activating or
\* emitting anything more.
C7_AdvanceFailureEndsRun ==
    \A k \in DOMAIN advLog :
        advLog[k].raised =>
            /\ ~advLog[k].ret
            /\ k = Len(advLog)
            /\ pc \in {"close", "done"}
            /\ error = "none"
            /\ Len(sink) = advLog[k].emitted

C7_Witness ==
    /\ pc = "done"
    /\ Len(advLog) = 2
    /\ advLog[2].raised
    /\ Len(sink) > 0

\* C8: at most 3 metadata queries per listing; success after k failures comes
\* after k+1 queries and k backoff waits; 3 failures end the loop after 3
\* queries and 2 backoff waits.
C8_RetryCounts ==
    /\ attempts <= max_retries
    /\ pc = "query" => attempts = retry_count /\ backoffs = retry_count
    /\ (pc = "assemble" /\ meta_outcome = "ok") =>
          /\ retry_count \in 0..2
          /\ attempts = retry_count + 1
          /\ backoffs = retry_count
    /\ (pc = "assemble" /\ meta_outcome = "exhausted") =>
          /\ retry_count = 3
          /\ attempts = 3
          /\ backoffs = 2

C8_Witness ==
    /\ pc = "assemble"
    /\ meta_outcome = "exhausted"
    /\ attempts = 3
    /\ backoffs = 2

NonDecreasing(s) == \A k \in 1..(Len(s) - 1) : s[k] <= s[k + 1]

RECURSIVE EqRun(_)
\* length of the run of polls at the end of s that each equal the one before
EqRun(s) ==
    IF Len(s) < 2 \/ s[Len(s)] # s[Len(s) - 1] THEN 0
    ELSE 1 + EqRun(SubSeq(s, 1, Len(s) - 1))

ExampleHeights == <<500, 700, 900, 900, 900, 900>>

\* C9: on non-decreasing heights the loop has stopped by the third consecutive
\* poll that repeats the height before it; on 500, 700, 900, 900, 900, 900 it
\* has stopped with 900 as the last height read.
C9_StopsByThirdRepeat ==
    NonDecreasing(polled) =>
        /\ pc = "scroll_loop" => EqRun(polled) < 3
        /\ EqRun(polled) <= 3
        /\ polled = ExampleHeights => pc = "read_text" /\ new_height = 900

C9_Witness ==
    /\ pc = "read_text"
    /\ polled = ExampleHeights
    /\ no_change_counter = 3
    /\ scroll_top + scroll_increment < new_height

\* C10: a poll ends the loop exactly when no_change_counter >= 3 or
\* scroll_top + 200 >= new_height holds at that poll, and every poll comes
\* after exactly one scrollBy of 200.
C10_StopsAtFirstSatisfied ==
    [][pc = "scroll_loop" =>
          /\ (pc' = "read_text") <=>
                (no_change_counter' >= 3 \/ scroll_top' + 200 >= new_height')
          /\ pc' \in {"read_text", "scroll_loop"}
          /\ polls' = polls + 1
          /\ scrolls' = scrolls + 1
          /\ dom_top' <= dom_top + 200]_vars

C10_Witness ==
    /\ pc = "read_text"
    /\ polls = 1
    /\ scrolls = 1
    /\ scroll_top = 850
    /\ new_height = 900
    /\ no_change_counter < 3
RECURSIVE NoGrowthRun(_)

\* length of the run of polls at the end of s that each did not exceed the one before
NoGrowthRun(s) ==
    IF Len(s) < 2 \/ s[Len(s)] > s[Len(s) - 1] THEN 0
    ELSE 1 + NoGrowthRun(SubSeq(s, 1, Len(s) - 1))

InScroll == pc \in {"scroll_loop", "read_text"}

\* C11 as claimed: at every poll the counter goes up by 1 when the height did
\* not grow since the poll before (constant or shrinking) and back to 0 when it
\* grew, so it is the length of the current run of polls without growth.
C11_NoGrowthIncrements ==
    InScroll => no_change_counter >= 0 /\ no_change_counter = NoGrowthRun(polled)

\* C11 as amended: at every poll the counter goes up by 1 when the height
\* equals that of the poll before and back to 0 when it differs (grown or
\* shrunk); it is never negative and is the length of the current run of polls
\* that repeat their predecessor.
C11_EqualHeightIncrements ==
    InScroll => no_change_counter >= 0 /\ no_change_counter = EqRun(polled)

C11_Witness ==
    /\ pc = "scroll_loop"
    /\ Len(polled) >= 3
    /\ polled[Len(polled)] < polled[Len(polled) - 1]
    /\ polled[Len(polled) - 1] = polled[Len(polled) - 2]
    /\ no_change_counter = 0

\* C12 (as stated): a record reaches the sink only for a listing whose query
\* returned job_details; a listing whose query returned none is skipped.
C12_AbsentSkipped == \A k \in DOMAIN table : "job_title" \in DOMAIN table[k]

\* C12 (as the code has it): a query that returns without failure and without
\* job_details does not skip the listing. main() goes on to the description
\* with job = {}, and the record pushed for that listing holds exactly the
\* keys job_description and qualifications.
C12_AbsentPushedBare ==
    /\ (pc \in {"desc_wait", "scroll_init", "scroll_loop", "read_text"}
          /\ meta_outcome = "ok" /\ ~job_metadata_response.has)
        => job = EmptyJob
    /\ \A k \in DOMAIN sink :
          (sink[k].fresh /\ sink[k].meta = NoListing)
          => /\ k \in DOMAIN table
             /\ DOMAIN table[k] = {"job_description", "qualifications"}
             /\ table[k]["job_description"] = TextOf(<<sink[k].page, sink[k].idx>>)

C12_Witness ==
    /\ sink # <<>>
    /\ sink[Len(sink)].fresh
    /\ sink[Len(sink)].meta = NoListing
    /\ last_listing = sink[Len(sink)].idx
    /\ ~job_metadata_response.has
    /\ job_metadata_response.src = <<curPage, last_listing>>
    /\ Len(table) = Len(sink)

\* C13: every call of push_to_airtable carries exactly one record and the
\* sink has created it when the call returns: whenever the cursor stands on
\* listing i of the current page (so before listing i + 1 is activated and
\* before any advance), the records of listings 1..i of this page are the
\* last i records of the sink, in order, and nothing is held back.
C13_PushedOneByOne ==
    /\ \A k \in DOMAIN pushes : pushes[k] = 1
    /\ Len(table) = Len(pushes)
    /\ Len(table) = Len(sink)
    /\ (last_listing # 0 /\ pc # "page_start")
        => /\ Len(table) >= last_listing
           /\ \A j \in 1..last_listing :
                LET k == Len(table) - last_listing + j
                IN  /\ sink[k].page = curPage /\ sink[k].idx = j
                    /\ table[k]["job_description"] = TextOf(<<curPage, j>>)
    /\ \A a \in DOMAIN advLog : advLog[a].emitted <= Len(table)

C13_Witness ==
    /\ pc = "click"
    /\ curPage = 2
    /\ last_listing = 1
    /\ listing = 2
    /\ Len(table) >= 2
    /\ table[Len(table)]["job_description"] = TextOf(<<2, 1>>)
    /\ pushes[Len(pushes)] = 1

\* C14: every record the sink's create call receives has the keys
\* job_description and qualifications, its qualifications are
\* extract_qualifications_general of its own job_description, and its salary,
\* when the key is there and the value is not None, is a str, whatever the
\* query returned.
C14_RecordShape ==
    \A k \in DOMAIN table :
        /\ {"job_description", "qualifications"} \subseteq DOMAIN table[k]
        /\ table[k]["qualifications"]
             = extract_qualifications_general(table[k]["job_description"])
        /\ ("salary" \in DOMAIN table[k] /\ table[k]["salary"] # None)
            => isinstance_str(table[k]["salary"])

C14_Witness ==
    \E k \in DOMAIN table :
        /\ sink[k].meta # NoListing
        /\ SalaryKind(sink[k].meta) = "int"
        /\ table[k]["salary"] = [t |-> "str", v |-> Details(sink[k].meta)["salary"].v]
        /\ table[k]["qualifications"] # <<>>
        /\ \E n \in DOMAIN table : "salary" \notin DOMAIN table[n]
        /\ \E n \in DOMAIN table : DictGet(table[n], "salary") = None /\ "salary" \in DOMAIN table[n]

\* The two halves as the claim words them, by slicing: the trimmed text between
\* the first Minimum header and the next Preferred header (or the end), and
\* the trimmed text after the first Preferred header.
Trimmed(s) ==
    LET ink == {i \in DOMAIN s : s[i] # "nl"}
    IN  IF ink = {} THEN <<>>
        ELSE SubSeq(s, CHOOSE i \in ink : \A j \in ink : i <= j,
                       CHOOSE i \in ink : \A j \in ink : i >= j)
MinAt(s) == {i \in DOMAIN s : s[i] \in {"MQ", "mq"}}
PrefAt(s) == {i \in DOMAIN s : s[i] = "PQ"}
Least(S) == CHOOSE i \in S : \A j \in S : i <= j
MinimumHalf(s) ==
    IF MinAt(s) = {} THEN <<>>
    ELSE LET i == Least(MinAt(s))
             after == {j \in PrefAt(s) : j > i}
         IN  Trimmed(SubSeq(s, i + 1, IF after = {} THEN Len(s) ELSE Least(after) - 1))
PreferredHalf(s) ==
    IF PrefAt(s) = {} THEN <<>>
    ELSE Trimmed(SubSeq(s, Least(PrefAt(s)) + 1, Len(s)))
MinThenPref(s) == \E i \in MinAt(s), j \in PrefAt(s) : i < j

\* C15: for a text with a Minimum header and a Preferred header after it, both
\* halves non-empty, the result is the Minimum label, a newline, the minimum
\* half, a blank line, the Preferred label, a newline and the preferred half;
\* a half that is empty is left out with its label; and no result of the
\* function begins or ends with whitespace.
C15_BothSections ==
    pc = "extracted" =>
      LET s == description_text
          minimum == MinimumHalf(s)
          preferred == PreferredHalf(s)
      IN  /\ qualifications = <<>>
              \/ (qualifications[1] # "nl" /\ qualifications[Len(qualifications)] # "nl")
          /\ MinThenPref(s) =>
                /\ (minimum # <<>> /\ preferred # <<>>)
                    => qualifications = <<"MQ", "nl">> \o minimum \o <<"nl", "nl">>
                                        \o <<"PQ", "nl">> \o preferred
                /\ (minimum = <<>> /\ preferred # <<>>)
                    => qualifications = <<"PQ", "nl">> \o preferred
                /\ (minimum # <<>> /\ preferred = <<>>)
                    => qualifications = <<"MQ", "nl">> \o minimum
                /\ (minimum = <<>> /\ preferred = <<>>) => qualifications = <<>>

C15_Witness ==
    /\ pc = "extracted"
    /\ description_text = <<"mq", "x", "PQ", "x">>
    /\ qualifications = <<"MQ", "nl", "x", "nl", "nl", "PQ", "nl", "x">>

\* positions of a "Qualifications:" that belongs to neither longer header, and
\* of a "Requirement:" or "Requirements:", in either letter case
PlainAt(s) == {i \in DOMAIN s : s[i] \in {"Q", "q"}}
ReqAt(s) == {i \in DOMAIN s : s[i] \in {"R1", "Rs"}}
After(s, S) == Trimmed(SubSeq(s, Least(S) + 1, Len(s)))
Step1(s) ==
    LET minimum == MinimumHalf(s)
        preferred == PreferredHalf(s)
    IN  (IF minimum = <<>> THEN <<>>
         ELSE <<"MQ", "nl">> \o minimum
              \o (IF preferred = <<>> THEN <<>> ELSE <<"nl", "nl">>))
        \o (IF preferred = <<>> THEN <<>> ELSE <<"PQ", "nl">> \o preferred)

\* C16: the chain is tried in order and each step uses its first header. With
\* a Minimum or Preferred header the result is step 1's, never a later
\* capture; without them, a "Qualifications:" header gives the trimmed text
\* after its first occurrence, whether or not a Requirement header is there;
\* without any of these, a "Requirement(s):" header gives the trimmed text
\* after its first occurrence; with none of the four the result is empty.
C16_FallbackChain ==
    pc = "extracted" =>
      LET s == description_text
      IN  IF MinAt(s) # {} \/ PrefAt(s) # {} THEN qualifications = Step1(s)
          ELSE IF PlainAt(s) # {} THEN qualifications = After(s, PlainAt(s))
          ELSE IF ReqAt(s) # {} THEN qualifications = After(s, ReqAt(s))
          ELSE qualifications = <<>>

C16_Witness ==
    /\ pc = "extracted"
    /\ description_text = <<"Rs", "q", "nl", "x">>
    /\ qualifications = <<"x">>

\* C17: on a finite surface main() leaves both loops and closes the page,
\* also when the details card of one listing fails to load every time that
\* listing is clicked.
C17_EventuallyClosed == <>(pc = "done")

\* C18: the metadata of every record in the sink was returned by a query made
\* while that record's own listing was the activated one, so a record that has
\* a job_title has the title of the listing it was pushed for; and the
\* records pushed earlier still hold the description of their own listing.
C18_MetadataIsOwn ==
    \A k \in DOMAIN table :
        /\ "job_title" \in DOMAIN table[k]
             => /\ table[k]["job_title"] = <<sink[k].page, sink[k].idx>>
                /\ sink[k].fresh
        /\ table[k]["job_description"] = TextOf(<<sink[k].page, sink[k].idx>>)

\* C19: every call of click_next_page that returns True has clicked the
\* control of a page after the one just scraped, on the fallback path too, so
\* no page is scraped twice in a run.
C19_AdvanceIncreasesPage ==
    /\ \A a \in DOMAIN advLog :
          advLog[a].ret => advLog[a].target > advLog[a].page
    /\ \A a, b \in DOMAIN advLog :
          a # b => advLog[a].page # advLog[b].page

====
